---- MODULE Spec2Model ----
(***************************************************************************)
(* Trade execution pipeline of crypto-technical-analysis-ai:               *)
(*   models/tradeSignal.ts   trade_signals table, getPendingSignals,       *)
(*                           markSignalAsExecuted, createSignal            *)
(*   models/order.ts         orders table, createOrder                     *)
(*   lib/bybitClient.ts      getPosition, closePosition, getCurrentPrice,  *)
(*                           calculateOrderQty, placeMarketOrder           *)
(*   services/tradeExecutor.ts  executeSignalOrder, processAllPendingSignals*)
(*   services/scheduler.ts   startSignalProcessing / stopSignalProcessing  *)
(*   index.ts                POST /api/signals/process, /api/signals/force *)
(*                                                                         *)
(* Every await of the executor is one step of a run, so that runs of       *)
(* processAllPendingSignals interleave exactly at the points where the     *)
(* Node event loop can switch between them.  Quantities are integers in    *)
(* units of 0.001 contracts (the default qtyStep); prices are whole USD.   *)
(* The exchange is modelled in one-way mode with immediate fills.          *)
(* stopSignalProcessing is only called by the SIGINT / SIGTERM handlers,   *)
(* which end the process, so the running program never stops the job.      *)
(***************************************************************************)
EXTENDS Integers, Sequences, FiniteSets, TLC

\* ------------------------------------------------------------------ bounds
MaxSignals == 2
MaxFaults == 1

\* --------------------------------------------------------------- constants
DEFAULT_TRADE_SIZE_USD == 50
DEFAULT_ORDER_TYPE == "Market"
QtyScale == 1000

\* symbols are character sequences so that endsWith is computed, not assumed
BTCUSDT == <<"B", "T", "C", "U", "S", "D", "T">>
ETHBTC == <<"E", "T", "H", "B", "T", "C">>
USDT == <<"U", "S", "D", "T">>
USDC == <<"U", "S", "D", "C">>
USD == <<"U", "S", "D">>
Symbols == {BTCUSDT, ETHBTC}
Directions == {"BUY", "SELL"}
Prices == {5}
Runs == {"cron", "api"}

\* ------------------------------------------------------------ bybitClient
endsWith(s, suffix) ==
  /\ Len(s) >= Len(suffix)
  /\ SubSeq(s, Len(s) - Len(suffix) + 1, Len(s)) = suffix

isInverseSymbol(symbol) ==
  endsWith(symbol, USD) /\ ~endsWith(symbol, USDT) /\ ~endsWith(symbol, USDC)

getCategoryForSymbol(symbol) ==
  IF endsWith(symbol, USDT) \/ endsWith(symbol, USDC)
    THEN "linear"
    ELSE IF isInverseSymbol(symbol) THEN "inverse" ELSE "spot"

\* lotSizeFilter of getInstrumentsInfo: the code's defaults "0.001" / "0.001"
lotSizeFilter(symbol) == [qtyStep |-> 1, minOrderQty |-> 1]

\* calculateOrderQty: floor(quantity / qtyStep) * qtyStep, raised to the minimum
calculateOrderQty(symbol, price, usdAmount) ==
  LET category == getCategoryForSymbol(symbol)
      qtyStep == lotSizeFilter(symbol).qtyStep
      minOrderQty == lotSizeFilter(symbol).minOrderQty
      raw == IF category = "inverse"
               THEN usdAmount * QtyScale
               ELSE (usdAmount * QtyScale) \div price
      quantity == (raw \div qtyStep) * qtyStep
  IN IF quantity < minOrderQty THEN minOrderQty ELSE quantity

NoPosition == [side |-> "None", size |-> 0]

NeverOpen(p) == FALSE

\* executeSignalOrder: position && position.size && Number(position.size) !== 0
hasOpenPosition(p) == p.size # 0

\* executeSignalOrder: closeSide = position.side === "Buy" ? "Sell" : "Buy"
closeSide(side) == IF side = "Buy" THEN "Sell" ELSE "Buy"

\* executeSignalOrder: side = signal.direction === "BUY" ? "Buy" : "Sell"
orderSide(direction) == IF direction = "BUY" THEN "Buy" ELSE "Sell"

\* the exchange accepts a reduce-only order only against an opposite position
closeAccepted(p, side) == p.size # 0 /\ p.side # side

\* position after a reduce-only order of qty was filled
positionAfterClose(p, qty) ==
  IF qty >= p.size THEN NoPosition ELSE [side |-> p.side, size |-> p.size - qty]

\* position after an entry order was filled (one-way mode: net position)
positionAfterEntry(p, side, qty) ==
  IF p.size = 0 THEN [side |-> side, size |-> qty]
  ELSE IF p.side = side THEN [side |-> side, size |-> p.size + qty]
  ELSE IF qty = p.size THEN NoPosition
  ELSE IF qty > p.size THEN [side |-> side, size |-> qty - p.size]
  ELSE [side |-> p.side, size |-> p.size - qty]

\* ----------------------------------------------------------- alertService
ALERT_THRESHOLD == 5
PRICE_MOVEMENT_PERCENT == 3
SENTIMENT_CHANGE_STRENGTH == 8
PRICE_MOVEMENT_STRENGTH == 7

\* the alert threshold comes from the environment (ALERT_THRESHOLD, default 5)
AlertThresholds == {ALERT_THRESHOLD, 7}

\* config.timeframes, as character sequences
TF_1H == <<"1", "h">>
TF_4H == <<"4", "h">>
Timeframes == <<TF_1H, TF_4H>>

\* MarketSignals of analyzeMarket: at most one per (indicator, signalType)
RSI_OVERSOLD ==
  [indicator |-> "RSI", signalType |-> "OVERSOLD", strength |-> 7, action |-> "BUY"]
RSI_OVERBOUGHT ==
  [indicator |-> "RSI", signalType |-> "OVERBOUGHT", strength |-> 7, action |-> "SELL"]
MACD_BULLISH_CROSS ==
  [indicator |-> "MACD", signalType |-> "BULLISH_CROSS", strength |-> 6, action |-> "BUY"]
SignalLists ==
  {<<RSI_OVERSOLD>>, <<RSI_OVERBOUGHT, MACD_BULLISH_CROSS>>,
   <<RSI_OVERSOLD, MACD_BULLISH_CROSS>>}
Sentiments == {"BULLISH", "BEARISH"}
AnalysisPrices == {97, 100, 103}

\* AnalysisResult of analyzeMarket for one (symbol, timeframe)
AnalysisResult(symbol, timeframe, price, sentiment, signals, score) ==
  [symbol |-> symbol, timeframe |-> timeframe, price |-> price,
   overallSentiment |-> sentiment, signals |-> signals, confidenceScore |-> score]

NoAnalysis == AnalysisResult(<<>>, <<>>, 0, "NONE", <<>>, 0)

Abs(x) == IF x < 0 THEN -x ELSE x

symbolKey(analysis) == analysis.symbol

\* const key = `${analysis.symbol}-${analysis.timeframe}`
analysisKey(analysis) == analysis.symbol \o <<"-">> \o analysis.timeframe

aboveThreshold(signal, threshold) == signal.strength > threshold

\* analysis.signals.filter((signal) => signal.strength >= this.alertThreshold)
isStrongSignal(signal, threshold) == signal.strength >= threshold

alwaysNew(previous, signal) == TRUE

\* !previousAnalysis.signals.find(ps => ps.indicator === ... && ps.signalType === ...)
isNewSignal(previous, signal) ==
  ~\E i \in DOMAIN previous.signals :
      /\ previous.signals[i].indicator = signal.indicator
      /\ previous.signals[i].signalType = signal.signalType

\* the for loop over strongSignals: push the signals absent from the previous result
newSignalAlerts(previous, analysis, threshold) ==
  LET strongSignals == SelectSeq(analysis.signals,
                                 LAMBDA signal : isStrongSignal(signal, threshold))
  IN SelectSeq(strongSignals, LAMBDA signal : isNewSignal(previous, signal))

\* the sentiment change alert
sentimentAlerts(previous, analysis) ==
  IF previous.overallSentiment # analysis.overallSentiment
    THEN <<[indicator |-> "COMBINED", signalType |-> "SENTIMENT_CHANGE",
            strength |-> SENTIMENT_CHANGE_STRENGTH,
            action |-> IF analysis.overallSentiment = "BULLISH" THEN "BUY"
                       ELSE IF analysis.overallSentiment = "BEARISH" THEN "SELL"
                       ELSE "WATCH"]>>
    ELSE <<>>

\* Math.abs(((price - previous.price) / previous.price) * 100) >= 3, for
\* positive prices, without the division
priceMoved(previous, analysis) ==
  Abs(analysis.price - previous.price) * 100 >= PRICE_MOVEMENT_PERCENT * previous.price

\* the price movement alert
priceAlerts(previous, analysis) ==
  IF priceMoved(previous, analysis)
    THEN <<[indicator |-> "PRICE", signalType |-> "PRICE_MOVEMENT",
            strength |-> PRICE_MOVEMENT_STRENGTH,
            action |-> IF analysis.price > previous.price THEN "BUY" ELSE "SELL"]>>
    ELSE <<>>

setIfAbsent(cache, key, value) ==
  [k \in DOMAIN cache \cup {key} |-> IF k \in DOMAIN cache THEN cache[k] ELSE value]

\* Map.set
mapSet(cache, key, value) ==
  [k \in DOMAIN cache \cup {key} |-> IF k = key THEN value ELSE cache[k]]

\* the Telegram channel while the alerts of a call are posted
ChannelUp == "up"
ChannelDown == "down"
ChannelOutcomes == {ChannelUp, ChannelDown}

dispatchedUntilFailure(alerts, channel) == IF channel = ChannelDown THEN <<>> ELSE alerts

\* for (const alert of alerts) this.sendAlert(alert): the calls are not
\* awaited, and sendAlert catches the rejection of axios.post and logs it, so
\* every alert is handed over whatever the channel does
dispatched(alerts, channel) == alerts

\* the posts of the alerts of a call that fail: each of them while the
\* channel is down
failedPosts(alerts, channel) == IF channel = ChannelDown THEN Len(alerts) ELSE 0

\* AlertService.processAnalysisResult: the alerts returned, the cache after the
\* call, the alerts handed to sendAlert and the posts that failed
processAnalysisResult(cache, analysis, threshold, channel) ==
  LET key == analysisKey(analysis)
  IN IF key \notin DOMAIN cache
       THEN [key |-> key, previous |-> NoAnalysis, analysis |-> analysis,
             alerts |-> <<>>, sent |-> <<>>, failed |-> 0,
             cache |-> mapSet(cache, key, analysis)]
       ELSE LET previous == cache[key]
                alerts == newSignalAlerts(previous, analysis, threshold)
                            \o sentimentAlerts(previous, analysis)
                            \o priceAlerts(previous, analysis)
                sent == dispatched(alerts, channel)
            IN [key |-> key, previous |-> previous, analysis |-> analysis,
                alerts |-> alerts, sent |-> sent,
                failed |-> failedPosts(alerts, channel),
                cache |-> mapSet(cache, key, analysis)]

\* history of the calls, read only by the properties: the last call, and per
\* key and (indicator, signalType) pair the alerts of the current run of
\* consecutive results that contain the pair, counted up to RunAlertCap
NoCall == [key |-> <<>>, previous |-> NoAnalysis, analysis |-> NoAnalysis,
           alerts |-> <<>>, sent |-> <<>>, failed |-> 0, runAlerts |-> << >>]

\* ------------------------------------------- monitorService, strategyService
MIN_CANDLES == 50
POLLING_INTERVAL == 60000
\* intervals given to setPollingInterval
PollingIntervals == {POLLING_INTERVAL, 30000}
TRADING_MIN_CONFIDENCE == 60
SIGNAL_MIN_CONFIDENCE == 65

\* config.assets
Assets == <<BTCUSDT>>

\* the (symbol, timeframe) pairs in the order runAnalysis visits them
MonitorPairs ==
  [i \in 1..(Len(Assets) * Len(Timeframes)) |->
     [symbol |-> Assets[((i - 1) \div Len(Timeframes)) + 1],
      timeframe |-> Timeframes[((i - 1) % Len(Timeframes)) + 1]]]

TickIds == {1, 2}
TaskIds == 1..Len(Timeframes)

\* what the awaited getCandles and the analysis of one pair can come to
CandleOutcomes == {"rejected", "short", "threw", "ok"}
candleCount(outcome) == IF outcome = "short" THEN MIN_CANDLES - 1 ELSE 100

executedTrue == TRUE

\* StrategyService.processAnalysisResult: signalData.executed
executedFlag == FALSE

neverBelow(confidenceScore) == FALSE

\* StrategyService.processAnalysisResult: if (confidenceScore < 65) return null
belowSignalConfidence(confidenceScore) == confidenceScore < SIGNAL_MIN_CONFIDENCE

\* MonitorService.processTrading: if (result.summary.confidenceScore >= 60)
reachesTradingConfidence(confidenceScore) == confidenceScore >= TRADING_MIN_CONFIDENCE

\* determineSignalDirection: sentiment === "BEARISH" ? "SELL" : "BUY"
determineSignalDirection(analysis) ==
  IF analysis.overallSentiment = "BEARISH" THEN "SELL" ELSE "BUY"

IdleTick == [pc |-> "idle", idx |-> 0,
             \* history of the invocation, read only by the properties
             attempted |-> <<>>, stages |-> <<>>, autoTrading |-> FALSE,
             caught |-> {}]

IdleTask == [pc |-> "idle", symbol |-> <<>>, timeframe |-> <<>>,
             analysis |-> NoAnalysis,
             \* history of the invocation, read only by the properties
             stages |-> <<>>, created |-> FALSE]

\* ------------------------------------------------------------ persistence
\* createSignal: insert with isExecuted = signal.executed ? 1 : 0
createSignal(table, symbol, direction, executed) ==
  Append(table, [id |-> Len(table) + 1, symbol |-> symbol,
                 direction |-> direction,
                 isExecuted |-> IF executed THEN 1 ELSE 0])

AllSignals(table) == table

\* getPendingSignals: select ... where isExecuted = 0
getPendingSignals(table) == SelectSeq(table, LAMBDA row : row.isExecuted = 0)

\* markSignalAsExecuted: update ... set isExecuted = 1 where id = id
markSignalAsExecuted(table, id) ==
  [i \in DOMAIN table |->
     IF table[i].id = id THEN [table[i] EXCEPT !.isExecuted = 1] ELSE table[i]]

NoInsert(table, order) == table

\* createOrder: insert into orders
createOrder(table, order) ==
  table \cup {order}

\* ------------------------------------------------------------------ state
VARIABLES
  tradeSignals,         \* trade_signals table: sequence of rows, id = index
  orders,               \* orders table: set of rows
  exchangeOrders,       \* entry orders the exchange accepted (run, signalId: history)
  position,             \* open position of the account, per symbol
  signalProcessingJob,  \* scheduler.ts: the scheduled job or "null"
  activeJobs,           \* number of jobs node-schedule holds for the sweep
  jobReplaced,          \* a start cancelled a live job and scheduled another (history)
  faults,               \* exchange / persistence calls that failed so far
  runs,                 \* the running invocations of processAllPendingSignals
  isRunning,            \* MonitorService.isRunning
  timer,                \* MonitorService.timer: "null" or the interval handle
  activeTimers,         \* number of intervals set and not cleared
  pollingInterval,      \* MonitorService.pollingInterval, in ms
  enableAutoTrading,    \* MonitorService.enableAutoTrading
  alertThreshold,       \* AlertService.alertThreshold (config.alerts.threshold)
  previousAnalysis,     \* AlertService.previousAnalysis: Map from key to result
  lastCall,             \* the last AlertService.processAnalysisResult call (history)
  ticks,                \* the running invocations of MonitorService.runAnalysis
  tasks,                \* the running invocations of MonitorService.analyzeAsset
  calc                  \* the last evaluation of a sizing or analysis function (history)

executorVars == <<tradeSignals, orders, exchangeOrders, position,
                  signalProcessingJob, activeJobs, jobReplaced, faults, runs>>

monitorVars == <<isRunning, timer, activeTimers, pollingInterval,
                 enableAutoTrading, alertThreshold,
                 previousAnalysis, lastCall, ticks, tasks>>

vars == <<executorVars, monitorVars, calc>>

\* no function evaluated yet
NoCalc == [op |-> "none"]

IdleRun ==
  [pc |-> "idle", origin |-> "none", pendingSignals |-> <<>>, idx |-> 0,
   position |-> NoPosition, currentPrice |-> 0, qty |-> 0, orderId |-> <<>>,
   processedSignals |-> <<>>,
   \* history of the invocation, read only by the properties
   attempted |-> <<>>, submitted |-> <<>>, backoffDone |-> FALSE,
   paced |-> TRUE, executedAtStart |-> {}, lastResult |-> "none"]

InitCore ==
  /\ tradeSignals = <<>>
  /\ orders = {}
  /\ exchangeOrders = {}
  /\ position = [s \in Symbols |-> NoPosition]
  /\ signalProcessingJob = "null"
  /\ activeJobs = 0
  /\ jobReplaced = FALSE
  /\ faults = 0
  /\ runs = [r \in Runs |-> IdleRun]
  /\ isRunning = FALSE
  /\ timer = "null"
  /\ activeTimers = 0
  /\ pollingInterval = POLLING_INTERVAL
  /\ enableAutoTrading = FALSE
  /\ previousAnalysis = << >>
  /\ lastCall = NoCall
  /\ ticks = [t \in TickIds |-> IdleTick]
  /\ tasks = [k \in TaskIds |-> IdleTask]

\* the state after construction, with the default alert threshold
Init == InitCore /\ alertThreshold = ALERT_THRESHOLD /\ calc = NoCalc

ExecutedIds(table) == {i \in DOMAIN table : table[i].isExecuted = 1}
Signal(r) == runs[r].pendingSignals[runs[r].idx]
ExecPcs == {"getPosition", "closePosition", "sleepBackoff", "getCurrentPrice",
            "calculateOrderQty", "placeOrder", "createOrder", "markExecuted"}
Active(r) == runs[r].pc # "idle"

\* an exchange or persistence call may fail while the fault budget lasts
FaultAllowed == faults < MaxFaults

\* --------------------------------------------------------------- scheduler
\* startSignalProcessing: cancel the running job, schedule a new one
startSignalProcessing ==
  /\ signalProcessingJob' = "job"
  /\ activeJobs' = (IF signalProcessingJob # "null" THEN activeJobs - 1 ELSE activeJobs) + 1
  /\ jobReplaced' = (jobReplaced \/ signalProcessingJob # "null")
  /\ UNCHANGED <<tradeSignals, orders, exchangeOrders, position, faults, runs,
                 monitorVars, calc>>

\* stopSignalProcessing: cancel the job and drop the handle, if there is one
stopSignalProcessing ==
  /\ IF signalProcessingJob # "null"
       THEN /\ signalProcessingJob' = "null"
            /\ activeJobs' = activeJobs - 1
       ELSE UNCHANGED <<signalProcessingJob, activeJobs>>
  /\ UNCHANGED <<tradeSignals, orders, exchangeOrders, position, jobReplaced,
                 faults, runs, monitorVars, calc>>

\* a caller invokes processAllPendingSignals: the sweep awaits getPendingSignals
StartRun(r, origin) ==
  /\ r = origin
  /\ runs[r].pc = "idle"
  /\ runs' = [runs EXCEPT ![r] =
       [IdleRun EXCEPT !.pc = "getPendingSignals", !.origin = origin,
                       !.executedAtStart = ExecutedIds(tradeSignals)]]
  /\ UNCHANGED <<tradeSignals, orders, exchangeOrders, position,
                 signalProcessingJob, activeJobs, jobReplaced, monitorVars, calc, faults>>

\* the cron job fires every 30 s, whether or not the previous sweep has ended
Tick(r) ==
  /\ signalProcessingJob # "null"
  /\ StartRun(r, "cron")

\* POST /api/signals/process
ApiProcess(r) == StartRun(r, "api")

\* POST /api/signals/force (generateForcedSignal) and the strategy service:
\* both persist the signal with executed: false
CreateSignal(symbol, direction) ==
  /\ Len(tradeSignals) < MaxSignals
  /\ tradeSignals' = createSignal(tradeSignals, symbol, direction, FALSE)
  /\ UNCHANGED <<orders, exchangeOrders, position, signalProcessingJob,
                 activeJobs, jobReplaced, monitorVars, calc, faults, runs>>

\* result.orderId of submitOrder: a fresh id; named by the signal it served
newOrderId(accepted, signalId) ==
  <<signalId, Cardinality({o \in accepted : o.signalId = signalId}) + 1>>

\* -------------------------------------------------------------- executor
SwallowedPc == "sleepPacing"

\* executeSignalOrder, catch (error) { logger.error(...); throw error; }
RethrowPc == "threw"

breakIndex(idx, len) == len + 1

\* processAllPendingSignals, catch (error) { logger.error(...); continue; }
continueIndex(idx, len) == idx + 1

\* the sweep's for loop reaches index i: call executeSignalOrder or return
BeginAttempt(rec, i) ==
  IF i <= Len(rec.pendingSignals)
    THEN [rec EXCEPT !.pc = "getPosition", !.idx = i,
                     !.position = NoPosition, !.currentPrice = 0, !.qty = 0,
                     !.orderId = <<>>, !.submitted = <<>>, !.backoffDone = FALSE,
                     !.attempted = Append(@, rec.pendingSignals[i].id),
                     !.lastResult = "none"]
    ELSE [rec EXCEPT !.pc = "returned", !.idx = i,
                     !.position = NoPosition, !.currentPrice = 0, !.qty = 0,
                     !.orderId = <<>>, !.submitted = <<>>, !.backoffDone = FALSE]

\* an awaited call of executeSignalOrder rejected: catch, log, rethrow
Throw(rec) == [rec EXCEPT !.pc = RethrowPc, !.lastResult = "fail"]

Set(r, rec) == runs' = [runs EXCEPT ![r] = rec]

\* a call failed for a reason outside the program: it uses up the fault budget
Fault(r) ==
  /\ FaultAllowed
  /\ faults' = faults + 1
  /\ Set(r, Throw(runs[r]))

\* const pendingSignals = await SignalModel.getPendingSignals()
GetPendingSignals(r) ==
  /\ runs[r].pc = "getPendingSignals"
  /\ \/ /\ LET rec == [runs[r] EXCEPT !.pendingSignals = getPendingSignals(tradeSignals),
                                      !.lastResult = "ok"]
           IN Set(r, BeginAttempt(rec, 1))
        /\ UNCHANGED faults
     \/ /\ FaultAllowed
        /\ faults' = faults + 1
        /\ Set(r, [runs[r] EXCEPT !.pc = "rejected", !.lastResult = "fail"])
  /\ UNCHANGED <<tradeSignals, orders, exchangeOrders, position,
                 signalProcessingJob, activeJobs, jobReplaced, monitorVars, calc>>

\* const position = await getPosition(signal.symbol)
GetPosition(r) ==
  /\ runs[r].pc = "getPosition"
  /\ LET symbol == Signal(r).symbol
         p == position[symbol]
     IN \/ /\ getCategoryForSymbol(symbol) = "spot"
           /\ Set(r, Throw(runs[r]))
           /\ UNCHANGED faults
        \/ /\ getCategoryForSymbol(symbol) # "spot"
           /\ Set(r, [runs[r] EXCEPT
                 !.position = p, !.lastResult = "ok",
                 !.pc = IF hasOpenPosition(p) THEN "closePosition"
                                              ELSE "getCurrentPrice"])
           /\ UNCHANGED faults
        \/ /\ getCategoryForSymbol(symbol) # "spot"
           /\ Fault(r)
  /\ UNCHANGED <<tradeSignals, orders, exchangeOrders, position,
                 signalProcessingJob, activeJobs, jobReplaced, monitorVars, calc>>

\* await closePosition(signal.symbol, closeSide, Math.abs(Number(position.size)))
ClosePosition(r) ==
  /\ runs[r].pc = "closePosition"
  /\ LET symbol == Signal(r).symbol
         side == closeSide(runs[r].position.side)
         qty == runs[r].position.size
         order == [symbol |-> symbol, side |-> side, orderType |-> "Market",
                   qty |-> qty, reduceOnly |-> TRUE]
     IN \/ /\ closeAccepted(position[symbol], side)
           /\ position' = [position EXCEPT ![symbol] = positionAfterClose(@, qty)]
           /\ Set(r, [runs[r] EXCEPT !.pc = "sleepBackoff", !.lastResult = "ok",
                                     !.submitted = Append(@, order),
                                     !.paced = FALSE])
           /\ UNCHANGED faults
        \/ \* the exchange rejects the order, or the call fails on the way
           /\ ~closeAccepted(position[symbol], side) \/ FaultAllowed
           /\ faults' = IF closeAccepted(position[symbol], side)
                           THEN faults + 1 ELSE faults
           /\ Set(r, Throw(runs[r]))
           /\ UNCHANGED position
  /\ UNCHANGED <<tradeSignals, orders, exchangeOrders, signalProcessingJob,
                 activeJobs, jobReplaced, monitorVars, calc>>

\* await sleep(1000)
SleepBackoff(r) ==
  /\ runs[r].pc = "sleepBackoff"
  /\ Set(r, [runs[r] EXCEPT !.pc = "getCurrentPrice", !.backoffDone = TRUE])
  /\ UNCHANGED <<tradeSignals, orders, exchangeOrders, position,
                 signalProcessingJob, activeJobs, jobReplaced, monitorVars, calc, faults>>

\* const currentPrice = await getCurrentPrice(signal.symbol)
GetCurrentPrice(r) ==
  /\ runs[r].pc = "getCurrentPrice"
  /\ \/ /\ \E price \in Prices :
             Set(r, [runs[r] EXCEPT !.pc = "calculateOrderQty",
                                    !.currentPrice = price, !.lastResult = "ok"])
        /\ UNCHANGED faults
     \/ Fault(r)
  /\ UNCHANGED <<tradeSignals, orders, exchangeOrders, position,
                 signalProcessingJob, activeJobs, jobReplaced, monitorVars, calc>>

\* const qty = await calculateOrderQty(symbol, currentPrice, DEFAULT_TRADE_SIZE_USD)
CalculateOrderQty(r) ==
  /\ runs[r].pc = "calculateOrderQty"
  /\ \/ /\ Set(r, [runs[r] EXCEPT
                !.pc = "placeOrder", !.lastResult = "ok",
                !.qty = calculateOrderQty(Signal(r).symbol, runs[r].currentPrice,
                                          DEFAULT_TRADE_SIZE_USD)])
        /\ UNCHANGED faults
     \/ Fault(r)
  /\ UNCHANGED <<tradeSignals, orders, exchangeOrders, position,
                 signalProcessingJob, activeJobs, jobReplaced, monitorVars, calc>>

\* orderId = await placeMarketOrder(...) / placeLimitOrder(...)
PlaceOrder(r) ==
  /\ runs[r].pc = "placeOrder"
  /\ LET symbol == Signal(r).symbol
         side == orderSide(Signal(r).direction)
         order == [orderId |-> newOrderId(exchangeOrders, Signal(r).id),
                   symbol |-> symbol, side |-> side,
                   orderType |-> DEFAULT_ORDER_TYPE, qty |-> runs[r].qty,
                   reduceOnly |-> FALSE, run |-> r, signalId |-> Signal(r).id]
     IN \/ /\ exchangeOrders' = exchangeOrders \cup {order}
           /\ position' = [position EXCEPT
                             ![symbol] = positionAfterEntry(@, side, runs[r].qty)]
           /\ Set(r, [runs[r] EXCEPT !.pc = "createOrder", !.lastResult = "ok",
                                     !.orderId = order.orderId,
                                     !.submitted = Append(@,
                                        [symbol |-> symbol, side |-> side,
                                         orderType |-> DEFAULT_ORDER_TYPE,
                                         qty |-> runs[r].qty, reduceOnly |-> FALSE]),
                                     !.paced = FALSE])
           /\ UNCHANGED faults
        \/ /\ Fault(r)
           /\ UNCHANGED <<exchangeOrders, position>>
  /\ UNCHANGED <<tradeSignals, orders, signalProcessingJob, activeJobs, jobReplaced, monitorVars, calc>>

\* await OrderModel.createOrder({ signalId, symbol, side, ... })
CreateOrder(r) ==
  /\ runs[r].pc = "createOrder"
  /\ \/ /\ orders' = createOrder(orders,
                [signalId |-> Signal(r).id, symbol |-> Signal(r).symbol,
                 side |-> orderSide(Signal(r).direction),
                 orderType |-> DEFAULT_ORDER_TYPE, price |-> runs[r].currentPrice,
                 qty |-> runs[r].qty, orderId |-> runs[r].orderId,
                 orderStatus |-> "NEW"])
        /\ Set(r, [runs[r] EXCEPT !.pc = "markExecuted", !.lastResult = "ok"])
        /\ UNCHANGED faults
     \/ /\ Fault(r)
        /\ UNCHANGED orders
  /\ UNCHANGED <<tradeSignals, exchangeOrders, position, signalProcessingJob,
                 activeJobs, jobReplaced, monitorVars, calc>>

\* await SignalModel.markSignalAsExecuted(signalId); processedSignals.push(...)
MarkExecuted(r) ==
  /\ runs[r].pc = "markExecuted"
  /\ \/ /\ tradeSignals' = markSignalAsExecuted(tradeSignals, Signal(r).id)
        /\ Set(r, [runs[r] EXCEPT !.pc = "sleepPacing", !.lastResult = "ok",
                                  !.processedSignals = Append(@, Signal(r).id)])
        /\ UNCHANGED faults
     \/ /\ Fault(r)
        /\ UNCHANGED tradeSignals
  /\ UNCHANGED <<orders, exchangeOrders, position, signalProcessingJob,
                 activeJobs, jobReplaced, monitorVars, calc>>

\* await sleep(2000), then the next signal of the loop
SleepPacing(r) ==
  /\ runs[r].pc = "sleepPacing"
  /\ Set(r, BeginAttempt([runs[r] EXCEPT !.paced = TRUE], runs[r].idx + 1))
  /\ UNCHANGED <<tradeSignals, orders, exchangeOrders, position,
                 signalProcessingJob, activeJobs, jobReplaced, monitorVars, calc, faults>>

\* the sweep's catch: log the error and go on with the next signal
CatchContinue(r) ==
  /\ runs[r].pc = "threw"
  /\ Set(r, BeginAttempt(runs[r],
            continueIndex(runs[r].idx, Len(runs[r].pendingSignals))))
  /\ UNCHANGED <<tradeSignals, orders, exchangeOrders, position,
                 signalProcessingJob, activeJobs, jobReplaced, monitorVars, calc, faults>>

\* processAllPendingSignals settled: the cron callback logs, the route answers
Finish(r) ==
  /\ runs[r].pc \in {"returned", "rejected"}
  /\ Set(r, IdleRun)
  /\ UNCHANGED <<tradeSignals, orders, exchangeOrders, position,
                 signalProcessingJob, activeJobs, jobReplaced, monitorVars, calc, faults>>

RunStep(r) ==
  \/ GetPendingSignals(r) \/ GetPosition(r) \/ ClosePosition(r)
  \/ SleepBackoff(r) \/ GetCurrentPrice(r) \/ CalculateOrderQty(r)
  \/ PlaceOrder(r) \/ CreateOrder(r) \/ MarkExecuted(r)
  \/ SleepPacing(r) \/ CatchContinue(r) \/ Finish(r)

Next ==
  \/ startSignalProcessing
  \/ \E r \in Runs : Tick(r)
  \/ \E r \in Runs : ApiProcess(r)
  \/ \E symbol \in Symbols, direction \in Directions : CreateSignal(symbol, direction)
  \/ \E r \in Runs : RunStep(r)

\* the program: the cron sweep and a requested sweep may overlap
Spec == Init /\ [][Next]_vars

\* sweeps that never overlap: a sweep starts only when no other is in flight
SeqTick(r) == (\A q \in Runs : ~Active(q)) /\ Tick(r)
SeqApiProcess(r) == (\A q \in Runs : ~Active(q)) /\ ApiProcess(r)

SeqNext ==
  \/ startSignalProcessing
  \/ \E r \in Runs : SeqTick(r)
  \/ \E r \in Runs : SeqApiProcess(r)
  \/ \E symbol \in Symbols, direction \in Directions : CreateSignal(symbol, direction)
  \/ \E r \in Runs : RunStep(r)

SeqSpec == Init /\ [][SeqNext]_vars

\* the event loop resumes every pending await and the cron job keeps firing
FairSpec ==
  /\ SeqSpec
  /\ WF_vars(\E r \in Runs : SeqTick(r))
  /\ \A r \in Runs : WF_vars(RunStep(r))

\* ---------------------------------------------------------------- monitor
\* the shape of an analysis: what analyzeMarket derives from the candles
Shape(price, sentiment, signals, score) ==
  [price |-> price, sentiment |-> sentiment, signals |-> signals, score |-> score]

\* this.technicalAnalysisService.analyzeMarket(symbol, timeframe, candles)
analyzeMarket(symbol, timeframe, shape) ==
  AnalysisResult(symbol, timeframe, shape.price, shape.sentiment, shape.signals,
                 shape.score)

signalPair(signal) == <<signal.indicator, signal.signalType>>
SignalPairs ==
  {signalPair(RSI_OVERSOLD), signalPair(RSI_OVERBOUGHT), signalPair(MACD_BULLISH_CROSS)}
RunAlertCap == 2
hasPair(signals, pair) == \E i \in DOMAIN signals : signalPair(signals[i]) = pair
pairCount(signals, pair) ==
  Cardinality({i \in DOMAIN signals : signalPair(signals[i]) = pair})
capped(n) == IF n > RunAlertCap THEN RunAlertCap ELSE n

\* the alerts per pair of the current run, after a call for the pair (symbol,
\* timeframe) of the analysis
runAlertsAfter(runAlerts, analysis, alerts) ==
  LET pairKey == <<analysis.symbol, analysis.timeframe>>
      before(pair) == IF pairKey \in DOMAIN runAlerts
                        THEN runAlerts[pairKey][pair] ELSE 0
      after == [pair \in SignalPairs |->
                  IF hasPair(analysis.signals, pair)
                    THEN capped(before(pair) + pairCount(alerts, pair))
                    ELSE 0]
  IN mapSet(runAlerts, pairKey, after)

\* the history record of a call of AlertService.processAnalysisResult
callRecord(call) ==
  [key |-> call.key, previous |-> call.previous, analysis |-> call.analysis,
   alerts |-> call.alerts, sent |-> call.sent, failed |-> call.failed,
   runAlerts |-> runAlertsAfter(lastCall.runAlerts, call.analysis, call.alerts)]

\* this.alertService.processAnalysisResult(analysis)
ProcessAnalysis(analysis, channel) ==
  LET call == processAnalysisResult(previousAnalysis, analysis, alertThreshold,
                                    channel)
  IN /\ previousAnalysis' = call.cache
     /\ lastCall' = callRecord(call)

\* the steps a tick or a task ran for a pair, by the outcome of its first part
stagesOf(outcome) ==
  IF outcome = "ok" THEN <<"analyze", "alert">>
  ELSE IF outcome = "threw" THEN <<"analyze">>
  ELSE <<>>

\* the outcomes that raise an error inside the try block of runAnalysis
ErrorOutcomes == {"rejected", "threw"}

abortLoop(idx, len) == len + 1

\* the catch block of runAnalysis logs; the for loops go on with the next pair
afterCatch(idx, len) == idx + 1

\* runAnalysis reaches pair i of the nested for loops, or returns
BeginPair(rec, i) ==
  IF i <= Len(MonitorPairs)
    THEN [rec EXCEPT !.pc = "getCandles", !.idx = i, !.attempted = Append(@, i)]
    ELSE [rec EXCEPT !.pc = "returned", !.idx = i]

IdleTicks == {t \in TickIds : ticks[t].pc = "idle"}
FreeTick(t) == t \in IdleTicks /\ \A u \in IdleTicks : t <= u
TicksInFlight == {t \in TickIds : ticks[t].pc = "getCandles"}

\* this.runAnalysis(): runs up to the first await of getCandles
RunAnalysis(t) ==
  ticks' = [ticks EXCEPT ![t] = BeginPair(IdleTick, 1)]

keepInterval(count) == count

\* clearInterval(this.timer): the interval is no longer active
clearInterval(count) == count - 1

\* setInterval(callback, this.pollingInterval): one more active interval
setInterval(count) == count + 1

\* MonitorService.start
MonitorStart ==
  IF isRunning
    THEN UNCHANGED vars
    ELSE /\ isRunning' = TRUE
         /\ \E t \in TickIds : FreeTick(t) /\ RunAnalysis(t)
         /\ timer' = "set"
         /\ activeTimers' = setInterval(activeTimers)
         /\ UNCHANGED <<executorVars, calc, pollingInterval, enableAutoTrading,
                        alertThreshold,
                        previousAnalysis, lastCall, tasks>>

\* MonitorService.stop
MonitorStop ==
  /\ isRunning' = FALSE
  /\ IF timer # "null"
       THEN /\ activeTimers' = clearInterval(activeTimers)
            /\ timer' = "null"
       ELSE UNCHANGED <<timer, activeTimers>>
  /\ UNCHANGED <<executorVars, calc, pollingInterval, enableAutoTrading,
                 alertThreshold,
                 previousAnalysis, lastCall, ticks, tasks>>

\* MonitorService.setPollingInterval: restart the interval if running
SetPollingInterval(interval) ==
  /\ pollingInterval' = interval
  /\ IF isRunning /\ timer # "null"
       THEN /\ activeTimers' = setInterval(clearInterval(activeTimers))
            /\ timer' = "set"
       ELSE UNCHANGED <<timer, activeTimers>>
  /\ UNCHANGED <<executorVars, calc, isRunning, enableAutoTrading, alertThreshold,
                 previousAnalysis, lastCall, ticks, tasks>>

firesAlways(handle, running) == TRUE

\* the interval set by start fires until clearInterval, and its callback
\* calls runAnalysis if (this.isRunning)
timerFires(handle, running) == handle = "set" /\ running

\* the setInterval callback: if (this.isRunning) this.runAnalysis()
TimerFire(t) ==
  /\ timerFires(timer, isRunning)
  /\ FreeTick(t)
  /\ RunAnalysis(t)
  /\ UNCHANGED <<executorVars, calc, isRunning, timer, activeTimers,
                 pollingInterval, enableAutoTrading,
                 alertThreshold, previousAnalysis, lastCall, tasks>>

\* MonitorService.setAutoTrading (POST /api/autotrading/toggle, startup)
SetAutoTrading(enable) ==
  /\ enableAutoTrading' = enable
  /\ UNCHANGED <<executorVars, calc, isRunning, timer, activeTimers,
                 pollingInterval, alertThreshold,
                 previousAnalysis, lastCall, ticks, tasks>>

\* runAnalysis, one pair: the awaited getCandles settles, then the candle
\* check, analyzeMarket, the alert service and logAnalysisSummary run; any
\* error is caught and the loop goes on with the next pair
TickStep(t, outcome, shape, channel) ==
  /\ ticks[t].pc = "getCandles"
  /\ LET pair == MonitorPairs[ticks[t].idx]
         analysis == analyzeMarket(pair.symbol, pair.timeframe, shape)
         rec == [ticks[t] EXCEPT !.stages = stagesOf(outcome),
                                 !.autoTrading = IF outcome = "ok"
                                                   THEN enableAutoTrading
                                                   ELSE @,
                                 !.caught = IF outcome \in ErrorOutcomes
                                              THEN @ \cup {ticks[t].idx}
                                              ELSE @]
         next == IF outcome \in ErrorOutcomes
                   THEN afterCatch(ticks[t].idx, Len(MonitorPairs))
                   ELSE ticks[t].idx + 1
     IN /\ IF outcome = "ok" /\ candleCount(outcome) >= MIN_CANDLES
             THEN ProcessAnalysis(analysis, channel)
             ELSE UNCHANGED <<previousAnalysis, lastCall>>
        /\ ticks' = [ticks EXCEPT ![t] = BeginPair(rec, next)]
  /\ UNCHANGED <<executorVars, calc, isRunning, timer, activeTimers,
                 pollingInterval, enableAutoTrading,
                 alertThreshold, tasks>>

\* runAnalysis returned
TickFinish(t) ==
  /\ ticks[t].pc = "returned"
  /\ ticks' = [ticks EXCEPT ![t] = IdleTick]
  /\ UNCHANGED <<executorVars, calc, isRunning, timer, activeTimers,
                 pollingInterval, enableAutoTrading,
                 alertThreshold, previousAnalysis, lastCall, tasks>>

\* MonitorService.addAsset for a symbol that is monitored already, with the
\* configured timeframes: the entry is replaced by an equal one and, when the
\* monitor runs, startAssetMonitoring calls analyzeAsset for each timeframe
AddAsset(symbol) ==
  /\ \A k \in TaskIds : tasks[k].pc = "idle"
  /\ IF isRunning
       THEN tasks' = [k \in TaskIds |->
                        [IdleTask EXCEPT !.pc = "getCandles", !.symbol = symbol,
                                         !.timeframe = Timeframes[k]]]
       ELSE UNCHANGED tasks
  /\ UNCHANGED <<executorVars, calc, isRunning, timer, activeTimers,
                 pollingInterval, enableAutoTrading,
                 alertThreshold, previousAnalysis, lastCall, ticks>>

\* analyzeAsset: the awaited getCandles settles; then the candle check,
\* analyzeMarket and MonitorService.processAnalysisResult run: the alert
\* service, and with auto trading processTrading and the strategy service up
\* to its await of createSignal
TaskStep(k, outcome, shape, channel) ==
  /\ tasks[k].pc = "getCandles"
  /\ LET analysis == analyzeMarket(tasks[k].symbol, tasks[k].timeframe, shape)
         score == analysis.confidenceScore
         decides == outcome = "ok" /\ enableAutoTrading
                      /\ reachesTradingConfidence(score)
         creates == decides /\ ~belowSignalConfidence(score)
     IN /\ IF outcome = "ok" /\ candleCount(outcome) >= MIN_CANDLES
             THEN ProcessAnalysis(analysis, channel)
             ELSE UNCHANGED <<previousAnalysis, lastCall>>
        /\ tasks' = [tasks EXCEPT ![k] =
             [@ EXCEPT !.pc = IF creates THEN "createSignal" ELSE "returned",
                       !.analysis = IF outcome = "ok" THEN analysis ELSE NoAnalysis,
                       !.stages = IF decides THEN Append(stagesOf(outcome), "decide")
                                             ELSE stagesOf(outcome)]]
  /\ UNCHANGED <<executorVars, calc, isRunning, timer, activeTimers,
                 pollingInterval, enableAutoTrading,
                 alertThreshold, ticks>>

\* StrategyService.processAnalysisResult: await createSignal(signalData); a
\* rejection is caught and null is returned
TaskCreateSignal(k) ==
  /\ tasks[k].pc = "createSignal"
  /\ Len(tradeSignals) < MaxSignals
  /\ \/ /\ tradeSignals' = createSignal(tradeSignals, tasks[k].symbol,
                              determineSignalDirection(tasks[k].analysis),
                              executedFlag)
        /\ tasks' = [tasks EXCEPT ![k] = [@ EXCEPT !.pc = "returned",
                                                   !.created = TRUE]]
        /\ UNCHANGED faults
     \/ /\ FaultAllowed
        /\ faults' = faults + 1
        /\ tasks' = [tasks EXCEPT ![k] = [@ EXCEPT !.pc = "returned"]]
        /\ UNCHANGED tradeSignals
  /\ UNCHANGED <<orders, exchangeOrders, position, signalProcessingJob,
                 activeJobs, jobReplaced, runs, isRunning, timer,
                 activeTimers, pollingInterval,
                 enableAutoTrading, alertThreshold, previousAnalysis, lastCall,
                 ticks, calc>>

\* analyzeAsset returned
TaskFinish(k) ==
  /\ tasks[k].pc = "returned"
  /\ tasks' = [tasks EXCEPT ![k] = IdleTask]
  /\ UNCHANGED <<executorVars, calc, isRunning, timer, activeTimers,
                 pollingInterval, enableAutoTrading,
                 alertThreshold, previousAnalysis, lastCall, ticks>>

AssetSymbols == {Assets[i] : i \in DOMAIN Assets}

\* the analyses the ticks of the monitor loop are given
TickShapes ==
  {Shape(100, "NEUTRAL", <<RSI_OVERSOLD>>, 50),
   Shape(103, "BEARISH", <<RSI_OVERBOUGHT, MACD_BULLISH_CROSS>>, 70)}

TickNext ==
  \/ MonitorStart
  \/ MonitorStop
  \/ \E t \in TickIds : TimerFire(t)
  \/ \E enable \in BOOLEAN : SetAutoTrading(enable)
  \/ \E t \in TickIds, outcome \in CandleOutcomes, shape \in TickShapes,
        channel \in ChannelOutcomes :
       TickStep(t, outcome, shape, channel)
  \/ \E t \in TickIds : TickFinish(t)

\* the monitor loop: start, stop, the interval timer and the ticks
TickSpec == Init /\ [][TickNext]_vars

\* a tick whose pairs have too few candles yet
ShortTick(t) == \E shape \in TickShapes : TickStep(t, "short", shape, ChannelUp)

\* the analyses analyzeAsset is given: below both confidence gates, between
\* them, and above both
DecisionShapes ==
  {Shape(100, "NEUTRAL", <<RSI_OVERSOLD>>, 50),
   Shape(100, "BULLISH", <<RSI_OVERSOLD>>, 64),
   Shape(103, "BEARISH", <<RSI_OVERBOUGHT>>, 70)}

DecisionNext ==
  \/ MonitorStart
  \/ \E enable \in BOOLEAN : SetAutoTrading(enable)
  \/ \E t \in TickIds : ShortTick(t)
  \/ \E t \in TickIds : TickFinish(t)
  \/ \E symbol \in AssetSymbols : AddAsset(symbol)
  \/ \E k \in TaskIds, outcome \in CandleOutcomes, shape \in DecisionShapes :
       TaskStep(k, outcome, shape, ChannelUp)
  \/ \E k \in TaskIds : TaskCreateSignal(k)
  \/ \E k \in TaskIds : TaskFinish(k)

\* the monitor with assets added while it runs: analyzeAsset and the
\* strategy decision
DecisionSpec == Init /\ [][DecisionNext]_vars

\* the analyses that pass both confidence gates
PipelineShapes ==
  {Shape(100, "BULLISH", <<RSI_OVERSOLD>>, 70),
   Shape(100, "BEARISH", <<RSI_OVERBOUGHT>>, 70)}

\* the listen callback of the server: monitorService.start(),
\* setAutoTrading(true) and startSignalProcessing() run without an await
Startup ==
  /\ ~isRunning
  /\ signalProcessingJob = "null"
  /\ isRunning' = TRUE
  /\ timer' = "set"
  /\ activeTimers' = setInterval(activeTimers)
  /\ \E t \in TickIds : FreeTick(t) /\ RunAnalysis(t)
  /\ enableAutoTrading' = TRUE
  /\ signalProcessingJob' = "job"
  /\ activeJobs' = activeJobs + 1
  /\ UNCHANGED <<tradeSignals, orders, exchangeOrders, position, jobReplaced,
                 faults, runs, pollingInterval, alertThreshold, previousAnalysis,
                 lastCall, tasks, calc>>

PipelineNext ==
  \/ Startup
  \/ \E t \in TickIds : ShortTick(t)
  \/ \E t \in TickIds : TickFinish(t)
  \/ \E symbol \in AssetSymbols : AddAsset(symbol)
  \/ \E k \in TaskIds, shape \in PipelineShapes : TaskStep(k, "ok", shape, ChannelUp)
  \/ \E k \in TaskIds : TaskCreateSignal(k)
  \/ \E k \in TaskIds : TaskFinish(k)
  \/ \E r \in Runs : SeqTick(r)
  \/ \E r \in Runs : RunStep(r)

\* from the strategy decision to the order: the signals the strategy service
\* stores and the cron sweeps that execute them
PipelineSpec == Init /\ [][PipelineNext]_vars

LoopNext ==
  \/ MonitorStart
  \/ MonitorStop
  \/ \E t \in TickIds : TimerFire(t)
  \/ \E t \in TickIds : ShortTick(t)
  \/ \E t \in TickIds : TickFinish(t)
  \/ startSignalProcessing
  \/ stopSignalProcessing
  \/ \E symbol \in AssetSymbols, direction \in Directions :
       CreateSignal(symbol, direction)
  \/ \E r \in Runs : SeqTick(r)
  \/ \E r \in Runs : RunStep(r)

\* the two loops with their start and stop: the monitor loop and the cron
\* sweeps over the stored signals
LoopSpec == Init /\ [][LoopNext]_vars

TimerNext ==
  \/ LoopNext
  \/ \E interval \in PollingIntervals : SetPollingInterval(interval)

\* the two loops with every call that sets or clears a timer or a job
TimerSpec == Init /\ [][TimerNext]_vars

\* the event loop resumes every pending await of a tick and of a sweep
FairLoopSpec ==
  /\ LoopSpec
  /\ \A t \in TickIds : WF_vars(ShortTick(t))
  /\ \A r \in Runs : WF_vars(RunStep(r))

\* the analyses the alert service is given: every price, sentiment and signal
\* list; the confidence score plays no part in the alerts
AlertShapes ==
  {Shape(price, sentiment, signals, 70) :
     price \in AnalysisPrices, sentiment \in Sentiments, signals \in SignalLists}

\* a caller hands an analysis to the alert service
AlertCall(symbol, timeframe, shape) ==
  /\ ProcessAnalysis(analyzeMarket(symbol, timeframe, shape), ChannelUp)
  /\ UNCHANGED <<executorVars, calc, isRunning, timer, activeTimers,
                 pollingInterval, enableAutoTrading,
                 alertThreshold, ticks, tasks>>

AlertInit == InitCore /\ alertThreshold \in AlertThresholds /\ calc = NoCalc

AlertNext ==
  \E symbol \in AssetSymbols, i \in DOMAIN Timeframes, shape \in AlertShapes :
    AlertCall(symbol, Timeframes[i], shape)

\* the alert service alone, for each configured threshold
AlertSpec == AlertInit /\ [][AlertNext]_vars

\* ------------------------------------------------------ position sizing
MAX_LEVERAGE == 5
\* money is counted in thousandths of a dollar, so that the percentages and
\* the tenths of the risk ladder stay whole numbers
MoneyScale == 1000

Max(a, b) == IF a >= b THEN a ELSE b
Min(a, b) == IF a <= b THEN a ELSE b

\* the ladder of calculateLeverage and calculatePositionSize, in tenths:
\* 1.0, 0.8, 0.6, 0.4, 0.2 by confidenceScore
confidenceTenths(confidenceScore) ==
  IF confidenceScore >= 90 THEN 10
  ELSE IF confidenceScore >= 80 THEN 8
  ELSE IF confidenceScore >= 70 THEN 6
  ELSE IF confidenceScore >= 60 THEN 4
  ELSE 2

\* PositionSizeManager.calculateLeverage
calculateLeverage(maxLeverage, confidenceScore) ==
  LET leverage == (maxLeverage * confidenceTenths(confidenceScore)) \div 10
  IN Max(1, Min(leverage, maxLeverage))

\* PositionSizeManager.calculatePositionSize, in thousandths of a dollar
calculatePositionSize(accountSize, maxRiskPerTrade, defaultPositionSize, confidenceScore) ==
  LET positionSize == accountSize * maxRiskPerTrade
                        * confidenceTenths(confidenceScore)
      tenthOfAccount == accountSize * (MoneyScale \div 10)
  IN Max(defaultPositionSize * MoneyScale, Min(positionSize, tenthOfAccount))

\* POST /api/autotrading/settings: a positive accountSize and a
\* maxRiskPerTrade in (0, 100]
AccountSizes == {100, 1000, 10000}
RiskPercents == {1, 2, 10, 100}
ConfidenceScores == {0, 10, 20, 30, 40, 50, 60, 70, 80, 90, 100}

SizerInputs ==
  [accountSize : AccountSizes, maxRiskPerTrade : RiskPercents,
   confidenceScore : ConfidenceScores]

\* the function named op is about to be evaluated on the input
ToEvaluate(op, input) == [op |-> op, done |-> FALSE, in |-> input]
\* the function named op returned the output for the input
Evaluated(op, input, output) ==
  [op |-> op, done |-> TRUE, in |-> input, out |-> output]
\* leave everything but calc as it is
OnlyCalc == UNCHANGED <<executorVars, monitorVars>>

\* new PositionSizeManager(accountSize, maxRiskPerTrade), then the strategy
\* service sizes a signal with it
SizePosition ==
  /\ calc.op = "sizer"
  /\ ~calc.done
  /\ calc' = Evaluated("sizer", calc.in,
       [notional |-> calculatePositionSize(calc.in.accountSize,
                        calc.in.maxRiskPerTrade, DEFAULT_TRADE_SIZE_USD,
                        calc.in.confidenceScore),
        leverage |-> calculateLeverage(MAX_LEVERAGE, calc.in.confidenceScore)])
  /\ OnlyCalc

SizerInit ==
  /\ InitCore
  /\ alertThreshold = ALERT_THRESHOLD
  /\ \E input \in SizerInputs : calc = ToEvaluate("sizer", input)

\* the position sizer, for every accepted policy and confidence score
SizerSpec == SizerInit /\ [][SizePosition]_vars

\* ----------------------------------------------------------- order sizing
BTCUSD == <<"B", "T", "C", "U", "S", "D">>

OrderSymbols == {BTCUSDT, ETHBTC, BTCUSD}
OrderPrices == {2, 5, 7, 20}
SignalNotionals == {50, 60, 75, 100}

\* signalData of the strategy service: positionSizeUsd from the sizer
SignalData ==
  [symbol : OrderSymbols, direction : Directions, price : OrderPrices,
   positionSizeUsd : SignalNotionals]

\* the row createSignal persists for signalData: no size, no leverage
storedSignal(signalData) ==
  createSignal(<< >>, signalData.symbol, signalData.direction, FALSE)[1]

\* await createSignal(signalData)
StoreSignal ==
  /\ calc.op = "signal"
  /\ calc' = [op |-> "stored", done |-> FALSE, in |-> calc.in,
              row |-> storedSignal(calc.in)]
  /\ OnlyCalc

\* executeSignalOrder on the stored row:
\* qty = await calculateOrderQty(signal.symbol, currentPrice, DEFAULT_TRADE_SIZE_USD)
SizeOrder ==
  /\ calc.op = "stored"
  /\ calc' = Evaluated("qty", calc.in,
       [qty |-> calculateOrderQty(calc.row.symbol, calc.in.price,
                                  DEFAULT_TRADE_SIZE_USD)])
  /\ OnlyCalc

OrderSizeInit ==
  /\ InitCore
  /\ alertThreshold = ALERT_THRESHOLD
  /\ \E signalData \in SignalData : calc = ToEvaluate("signal", signalData)

\* a signal of the strategy service, stored and then sized for its entry order
OrderSizeSpec == OrderSizeInit /\ [][StoreSignal \/ SizeOrder]_vars

\* --------------------------------------------------- take profit, stop loss
\* percentages are in tenths of a percent, prices in 1/PriceScale of the
\* quote unit: entryPrice * (1 + percentage / 100) is exact in these units
PriceScale == 1000
TAKE_PROFIT_PERCENTAGE == 30
STOP_LOSS_PERCENTAGE == 15

calculateTakeProfitPrice(entryPrice, side, percentage) ==
  IF side = "Buy"
    THEN entryPrice * (PriceScale + percentage)
    ELSE entryPrice * (PriceScale - percentage)

stopLossBelow(entryPrice, side, percentage) ==
  entryPrice * (PriceScale - percentage)

calculateStopLossPrice(entryPrice, side, percentage) ==
  IF side = "Buy"
    THEN entryPrice * (PriceScale - percentage)
    ELSE entryPrice * (PriceScale + percentage)

\* Limit: currentPrice * 0.999 for a Buy, currentPrice * 1.001 for a Sell
limitPrice(currentPrice, side) ==
  IF side = "Buy" THEN currentPrice * 999 ELSE currentPrice * 1001

\* if (takeProfitPrice) orderParams.takeProfit = takeProfitPrice.toString()
optional(price) == IF price # 0 THEN {price} ELSE {}

\* orderParams of placeMarketOrder / placeLimitOrder
orderParams(side, orderType, price, takeProfitPrice, stopLossPrice) ==
  [side |-> side, orderType |-> orderType,
   price |-> IF orderType = "Limit" THEN {price} ELSE {},
   takeProfit |-> optional(takeProfitPrice),
   stopLoss |-> optional(stopLossPrice)]

OrderTypes == {"Market", "Limit"}
EntryPrices == {1, 5, 100}
PercentTenths == {1, STOP_LOSS_PERCENTAGE, TAKE_PROFIT_PERCENTAGE, 500, 999}

BracketInputs ==
  [direction : Directions, currentPrice : EntryPrices,
   takeProfitPercentage : PercentTenths, stopLossPercentage : PercentTenths,
   orderType : OrderTypes]

\* takeProfitPrice = calculateTakeProfitPrice(currentPrice, side);
\* stopLossPrice = calculateStopLossPrice(currentPrice, side)
ComputeBracket ==
  /\ calc.op = "entry"
  /\ LET side == orderSide(calc.in.direction)
     IN calc' = [op |-> "bracket", done |-> FALSE, in |-> calc.in,
                 side |-> side,
                 takeProfitPrice |->
                   calculateTakeProfitPrice(calc.in.currentPrice, side,
                                            calc.in.takeProfitPercentage),
                 stopLossPrice |->
                   calculateStopLossPrice(calc.in.currentPrice, side,
                                          calc.in.stopLossPercentage)]
  /\ OnlyCalc

\* placeMarketOrder / placeLimitOrder(symbol, side, ..., takeProfitPrice, stopLossPrice)
SubmitEntry ==
  /\ calc.op = "bracket"
  /\ calc' = Evaluated("order", calc.in,
       [takeProfitPrice |-> calc.takeProfitPrice,
        stopLossPrice |-> calc.stopLossPrice,
        order |-> orderParams(calc.side, calc.in.orderType,
                              limitPrice(calc.in.currentPrice, calc.side),
                              calc.takeProfitPrice, calc.stopLossPrice)])
  /\ OnlyCalc

BracketInit ==
  /\ InitCore
  /\ alertThreshold = ALERT_THRESHOLD
  /\ \E input \in BracketInputs : calc = ToEvaluate("entry", input)

\* the take-profit and stop-loss prices of an entry order
BracketSpec == BracketInit /\ [][ComputeBracket \/ SubmitEntry]_vars

\* ------------------------------------------------------ technical analysis
MarketSignal(indicator, signalType, strength, action) ==
  [indicator |-> indicator, signalType |-> signalType, strength |-> strength,
   action |-> action]

\* the latest bar transition of a period pair: the last two values of the fast
\* and of the slow EMA
EmaValues == {1, 2}
EmaTransitions ==
  [prevFast : EmaValues, prevSlow : EmaValues, fast : EmaValues, slow : EmaValues]
Flat == [prevFast |-> 1, prevSlow |-> 1, fast |-> 1, slow |-> 1]
CrossUp == [prevFast |-> 1, prevSlow |-> 2, fast |-> 2, slow |-> 1]
CrossDown == [prevFast |-> 2, prevSlow |-> 1, fast |-> 1, slow |-> 2]

\* the period pairs of analyzeMarket, and the strength and name by index
EmaPeriods == <<[fast |-> 9, slow |-> 21], [fast |-> 21, slow |-> 50],
                [fast |-> 50, slow |-> 200]>>
emaStrength(index) == IF index = 3 THEN 9 ELSE IF index = 2 THEN 7 ELSE 5
emaIndicator(index) ==
  IF index = 1 THEN "EMA_9/21" ELSE IF index = 2 THEN "EMA_21/50" ELSE "EMA_50/200"

\* calculateEMACross: neutral below max(fastPeriod, slowPeriod) + 5 candles,
\* else the flags of the last transition; signal and crossover are both
\* derived from isCrossOver alone
calculateEMACross(candles, fastPeriod, slowPeriod, last) ==
  IF candles < Max(fastPeriod, slowPeriod) + 5
    THEN [signal |-> "neutral", crossover |-> FALSE,
          isCrossOver |-> FALSE, isCrossUnder |-> FALSE]
    ELSE LET isCrossOver == last.prevFast <= last.prevSlow /\ last.fast > last.slow
             isCrossUnder == last.prevFast >= last.prevSlow /\ last.fast < last.slow
         IN [signal |-> IF isCrossOver THEN "bullish" ELSE "bearish",
             crossover |-> isCrossOver,
             isCrossOver |-> isCrossOver, isCrossUnder |-> isCrossUnder]

\* emaCrosses.forEach: a signal only if latestCross.crossover
emaSignals(emaCross, index) ==
  IF emaCross.crossover
    THEN <<MarketSignal(emaIndicator(index),
              IF emaCross.signal = "bullish" THEN "EMA_CROSS_OVER"
                                             ELSE "EMA_CROSS_UNDER",
              emaStrength(index),
              IF emaCross.signal = "bullish" THEN "BUY" ELSE "SELL")>>
    ELSE << >>

rsiSignals(rsi) ==
  IF rsi = "oversold" THEN <<RSI_OVERSOLD>>
  ELSE IF rsi = "overbought" THEN <<RSI_OVERBOUGHT>>
  ELSE << >>

divergenceSignals(divergence) ==
  IF divergence = "bullish"
    THEN <<MarketSignal("RSI", "BULLISH_DIVERGENCE", 8, "BUY")>>
  ELSE IF divergence = "bearish"
    THEN <<MarketSignal("RSI", "BEARISH_DIVERGENCE", 8, "SELL")>>
  ELSE << >>

macdSignals(macd) ==
  IF macd = "bullish" THEN <<MACD_BULLISH_CROSS>>
  ELSE IF macd = "bearish"
    THEN <<MarketSignal("MACD", "BEARISH_CROSS", 6, "SELL")>>
  ELSE << >>

bollingerSignals(bollinger, squeeze) ==
  (IF bollinger = "above"
     THEN <<MarketSignal("BOLLINGER", "PRICE_ABOVE_UPPER_BAND", 5, "SELL")>>
   ELSE IF bollinger = "below"
     THEN <<MarketSignal("BOLLINGER", "PRICE_BELOW_LOWER_BAND", 5, "BUY")>>
   ELSE << >>)
  \o (IF squeeze
        THEN <<MarketSignal("BOLLINGER", "BOLLINGER_SQUEEZE", 7, "WATCH")>>
        ELSE << >>)

volumeSignals(volume) ==
  IF volume = "bullish"
    THEN <<MarketSignal("VOLUME", "HIGH_VOLUME_BULLISH", 6, "BUY")>>
  ELSE IF volume = "bearish"
    THEN <<MarketSignal("VOLUME", "HIGH_VOLUME_BEARISH", 6, "SELL")>>
  ELSE << >>

RECURSIVE totalStrength(_)
totalStrength(signals) ==
  IF signals = << >> THEN 0
  ELSE Head(signals).strength + totalStrength(Tail(signals))

strengthSum(signals) == totalStrength(signals) * 10

\* Math.round((totalSignalStrength / maxPossibleStrength) * 100), or 0
confidenceScore(signals) ==
  LET maxPossibleStrength == Len(signals) * 10
  IN IF maxPossibleStrength > 0
       THEN (2 * totalStrength(signals) * 100 + maxPossibleStrength)
              \div (2 * maxPossibleStrength)
       ELSE 0

emaCrossesOf(input) ==
  [index \in 1..3 |->
     calculateEMACross(input.candles, EmaPeriods[index].fast,
                       EmaPeriods[index].slow, input.ema[index])]

\* the signals and the confidence score analyzeMarket derives from the latest
\* indicator values
analysisOf(input) ==
  LET emaCrosses == emaCrossesOf(input)
      signals == rsiSignals(input.rsi) \o divergenceSignals(input.divergence)
                   \o macdSignals(input.macd)
                   \o bollingerSignals(input.bollinger, input.squeeze)
                   \o emaSignals(emaCrosses[1], 1) \o emaSignals(emaCrosses[2], 2)
                   \o emaSignals(emaCrosses[3], 3)
                   \o volumeSignals(input.volume)
  IN [emaCross |-> emaCrosses, signals |-> signals,
      confidenceScore |-> confidenceScore(signals)]

\* candles handed to analyzeMarket: at least 50, at most the 100 requested
CandleCounts == {MIN_CANDLES, 100}

\* every combination of indicator findings, with one transition of each kind
IndicatorInputs ==
  [candles : CandleCounts,
   rsi : {"none", "oversold", "overbought"},
   divergence : {"none", "bullish", "bearish"},
   macd : {"none", "bullish", "bearish"},
   bollinger : {"none", "above", "below"},
   squeeze : BOOLEAN,
   volume : {"none", "bullish", "bearish"},
   ema : [1..3 -> {Flat, CrossUp, CrossDown}]]

\* every transition of every period pair, with no other finding
EmaInputs ==
  [candles : CandleCounts, rsi : {"none"}, divergence : {"none"},
   macd : {"none"}, bollinger : {"none"}, squeeze : {FALSE},
   volume : {"none"}, ema : [1..3 -> EmaTransitions]]

AnalyzeMarket ==
  /\ calc.op = "analyze" /\ ~calc.done
  /\ calc' = Evaluated("analyze", calc.in, analysisOf(calc.in))
  /\ OnlyCalc

AnalysisInit ==
  /\ InitCore
  /\ alertThreshold = ALERT_THRESHOLD
  /\ \E input \in IndicatorInputs \cup EmaInputs :
       calc = ToEvaluate("analyze", input)

\* analyzeMarket on the latest indicator values
AnalysisSpec == AnalysisInit /\ [][AnalyzeMarket]_vars

\* -------------------------------------------------- risk-adjusted strategy
\* an optional indicator value: {} when the indicator is absent, {v} otherwise
Present(optionalValue) == optionalValue # {}
ValueOf(optionalValue) == CHOOSE v \in optionalValue : TRUE

\* indicator?.value || fallback: the fallback also replaces a value of 0
valueOr(optionalValue, fallback) ==
  IF Present(optionalValue) /\ ValueOf(optionalValue) # 0
    THEN ValueOf(optionalValue)
    ELSE fallback

\* RSI in points, MACD histogram in tenths, Bollinger bandwidth in hundredths
HistogramScale == 10
BandwidthScale == 100

RECURSIVE Gcd(_, _)
Gcd(a, b) == IF b = 0 THEN a ELSE Gcd(b, a % b)

\* factors are exact fractions n / d in lowest terms, d > 0
Fraction(n, d) ==
  LET g == Gcd(Abs(n), d)
  IN [n |-> n \div g, d |-> d \div g]

times(factor, n, d) == Fraction(factor.n * n, factor.d * d)

unclamped(factor) == factor

\* Math.max(0.5, Math.min(1.5, factor))
clampFactor(factor) ==
  IF 2 * factor.n > 3 * factor.d THEN Fraction(3, 2)
  ELSE IF 2 * factor.n < factor.d THEN Fraction(1, 2)
  ELSE factor

calculateMarketRiskFactor(analysis) ==
  LET initial == Fraction(1, 1)
      byVolatility ==
        IF Present(analysis.bollinger)
          THEN IF ValueOf(analysis.bollinger) * 100 > 5 * BandwidthScale
                 THEN times(initial, BandwidthScale - ValueOf(analysis.bollinger),
                            BandwidthScale)
                 ELSE times(initial, 11, 10)
          ELSE initial
      byRsi ==
        IF Present(analysis.rsi)
          THEN IF ValueOf(analysis.rsi) > 70 \/ ValueOf(analysis.rsi) < 30
                 THEN times(byVolatility, 8, 10)
               ELSE IF ValueOf(analysis.rsi) > 45 /\ ValueOf(analysis.rsi) < 55
                 THEN times(byVolatility, 11, 10)
               ELSE byVolatility
          ELSE byVolatility
      byTrend ==
        IF Present(analysis.macd)
          THEN LET histogram == Abs(ValueOf(analysis.macd))
               \* 1 + Math.min(0.3, histogram / 5)
               IN times(byRsi,
                        5 * HistogramScale + Min((3 * 5 * HistogramScale) \div 10,
                                                 histogram),
                        5 * HistogramScale)
          ELSE byRsi
      byConfidence ==
        times(byTrend, 100 + (analysis.confidenceScore - SIGNAL_MIN_CONFIDENCE), 100)
  IN clampFactor(byConfidence)

\* Math.round(amount * factor): the nearest integer, halves upwards
roundTimes(amount, factor) ==
  (2 * amount * factor.n + factor.d) \div (2 * factor.d)

determineStrategy(analysis) ==
  LET rsiValue == valueOr(analysis.rsi, 50)
      macdValue == valueOr(analysis.macd, 0)
  IN IF rsiValue <= 30 THEN "RSI_OVERSOLD"
     ELSE IF rsiValue >= 70 THEN "RSI_OVERBOUGHT"
     ELSE IF Abs(macdValue) * 10 > 5 * HistogramScale
       THEN IF macdValue > 0 THEN "MACD_BULLISH" ELSE "MACD_BEARISH"
     ELSE "TREND_FOLLOWING"

\* StrategyService.processAnalysisResult up to signalData; no signal below the
\* gate. The policies drawn give sizer notionals in whole USD.
signalDataOf(policy, analysis) ==
  IF belowSignalConfidence(analysis.confidenceScore)
    THEN [created |-> FALSE]
    ELSE LET marketRiskFactor == calculateMarketRiskFactor(analysis)
             basePositionSize ==
               calculatePositionSize(policy.accountSize, policy.maxRiskPerTrade,
                                     DEFAULT_TRADE_SIZE_USD,
                                     analysis.confidenceScore) \div MoneyScale
             baseLeverage == calculateLeverage(MAX_LEVERAGE, analysis.confidenceScore)
         IN [created |-> TRUE,
             strategy |-> determineStrategy(analysis),
             marketRiskFactor |-> marketRiskFactor,
             basePositionSize |-> basePositionSize,
             baseLeverage |-> baseLeverage,
             positionSizeUsd |-> roundTimes(basePositionSize, marketRiskFactor),
             leverage |-> Max(1, Min(10, roundTimes(baseLeverage, marketRiskFactor))),
             executed |-> executedFlag]

StrategyPolicies == [accountSize : {1000, 10000}, maxRiskPerTrade : {2, 10}]
StrategyScores == {50, 65, 70, 85, 100}
RsiValues == {{}, {0}, {20}, {30}, {50}, {60}, {70}, {80}}
HistogramValues == {{}, {-15}, {-6}, {0}, {5}, {6}, {15}, {30}}
BandwidthValues == {{}, {2}, {5}, {6}, {50}, {150}}

StrategyAnalyses ==
  [rsi : RsiValues, macd : HistogramValues, bollinger : BandwidthValues,
   confidenceScore : StrategyScores]

GenerateSignal ==
  /\ calc.op = "strategy" /\ ~calc.done
  /\ calc' = Evaluated("strategy", calc.in,
                       signalDataOf(calc.in.policy, calc.in.analysis))
  /\ OnlyCalc

StrategyInit ==
  /\ InitCore
  /\ alertThreshold = ALERT_THRESHOLD
  /\ \E policy \in StrategyPolicies : \E analysis \in StrategyAnalyses :
       calc = ToEvaluate("strategy", [policy |-> policy, analysis |-> analysis])

\* the strategy service deciding on one analysis
StrategySpec == StrategyInit /\ [][GenerateSignal]_vars

\* ------------------------------------------------------------- properties
EntryOrders(id) == {o \in exchangeOrders : o.signalId = id}
Executed(id) == id \in DOMAIN tradeSignals /\ tradeSignals[id].isExecuted = 1
Pending(id) == id \in DOMAIN tradeSignals /\ tradeSignals[id].isExecuted = 0
InCall(r) == runs[r].pc \in ExecPcs \cup {"threw", "sleepPacing"}
Ids(rows) == [k \in DOMAIN rows |-> rows[k].id]
\* run r has an order accepted in this step, its first of the current attempt
FirstSubmission(r) ==
  Len(runs[r].submitted) = 0 /\ Len(runs'[r].submitted) = 1 /\ InCall(r)
\* run r has its entry order accepted in this step
EntrySubmission(r) ==
  /\ runs[r].pc = "placeOrder"
  /\ Len(runs'[r].submitted) = Len(runs[r].submitted) + 1

\* C1: over non-overlapping sweeps with failing calls, the exchange accepts
\* the entry order of a signal at most once
C1_EntryAcceptedAtMostOnce ==
  \A id \in DOMAIN tradeSignals : Cardinality(EntryOrders(id)) <= 1

\* C2: when a step of executeSignalOrder fails, that step leaves every
\* executed flag as it was and the error reaches the caller
C2_FailureLeavesPendingAndRethrows ==
  [][\A r \in Runs :
       (runs[r].pc \in ExecPcs /\ runs'[r].lastResult = "fail")
          => (tradeSignals' = tradeSignals /\ runs'[r].pc = "threw")]_vars

C2_Witness ==
  \E r \in Runs :
    /\ runs[r].pc = "threw"
    /\ Pending(Signal(r).id)
    /\ \E o \in orders : o.signalId = Signal(r).id /\ o.orderId = runs[r].orderId

\* C3: the executed flag never goes back to 0, getPendingSignals returns no
\* executed signal, and a sweep never calls executeSignalOrder for a signal
\* that was already executed when the sweep started
C3_ExecutedIsTerminal ==
  [][/\ \A id \in DOMAIN tradeSignals : Executed(id) => Executed(id)'
     /\ \A r \in Runs :
          runs'[r].pendingSignals # runs[r].pendingSignals
            => \A k \in DOMAIN runs'[r].pendingSignals :
                 ~Executed(runs'[r].pendingSignals[k].id)
     /\ \A r \in Runs : \A k \in DOMAIN runs'[r].attempted :
          runs'[r].attempted[k] \notin runs'[r].executedAtStart]_vars

C3_Witness ==
  \E r \in Runs :
    /\ runs[r].executedAtStart # {}
    /\ runs[r].pc = "markExecuted"
    /\ \A id \in runs[r].executedAtStart : Executed(id)

\* C4: an executed signal has an Order row with its id, markSignalAsExecuted
\* runs only after createOrder stored that row, and every Order row carries
\* the id of an entry order the exchange accepted for that signal
C4_ExecutedHasOrder ==
  /\ \A id \in DOMAIN tradeSignals :
       Executed(id) => \E o \in orders : o.signalId = id
  /\ \A r \in Runs :
       runs[r].pc = "markExecuted"
         => \E o \in orders : o.signalId = Signal(r).id /\ o.orderId = runs[r].orderId
  /\ \A o \in orders :
       \E e \in exchangeOrders : e.orderId = o.orderId /\ e.signalId = o.signalId

C4_Witness ==
  \E id \in DOMAIN tradeSignals :
    Executed(id) /\ \E o \in orders : o.signalId = id

\* C5: when getPosition reported an open position, the first order of the call
\* closes it (opposite side, full size, reduce-only), and an entry order
\* follows only after that close was accepted and the backoff pause elapsed
C5_FlipOrdering ==
  \A r \in Runs :
    (runs[r].position.size # 0 /\ Len(runs[r].submitted) >= 1)
      => /\ runs[r].submitted[1].reduceOnly
         /\ runs[r].submitted[1].symbol = Signal(r).symbol
         /\ runs[r].submitted[1].qty = runs[r].position.size
         /\ \/ runs[r].position.side = "Buy" /\ runs[r].submitted[1].side = "Sell"
            \/ runs[r].position.side = "Sell" /\ runs[r].submitted[1].side = "Buy"
         /\ Len(runs[r].submitted) >= 2
              => ~runs[r].submitted[2].reduceOnly /\ runs[r].backoffDone

\* Scenario C: open long of size 10, SELL signal: Sell 10 first, then the entry
C5_Witness ==
  \E r \in Runs :
    /\ runs[r].position = [side |-> "Buy", size |-> 10 * QtyScale]
    /\ Signal(r).direction = "SELL"
    /\ Len(runs[r].submitted) = 2
    /\ runs[r].submitted[1].side = "Sell"
    /\ runs[r].submitted[1].qty = 10 * QtyScale

\* C6: whenever an entry order is accepted for an instrument, the open
\* position of that instrument is zero at that moment
C6_EntryOnlyWhenFlat ==
  [][\A r \in Runs :
       EntrySubmission(r) => position[Signal(r).symbol].size = 0]_vars

\* C7: a sweep that returns has called executeSignalOrder exactly once for
\* each signal getPendingSignals gave it, in order, whatever failed before
C7_EverySignalAttemptedOnce ==
  \A r \in Runs :
    /\ runs[r].pc = "returned" => runs[r].attempted = Ids(runs[r].pendingSignals)
    /\ Len(runs[r].attempted) <= Len(runs[r].pendingSignals)
    /\ runs[r].attempted = SubSeq(Ids(runs[r].pendingSignals), 1, Len(runs[r].attempted))

C7_Witness ==
  \E r \in Runs :
    /\ runs[r].pc = "returned"
    /\ Len(runs[r].pendingSignals) = 2
    /\ runs[r].processedSignals = <<runs[r].pendingSignals[2].id>>

\* C8: in a sweep, the first order of a signal's attempt is submitted only
\* after the pacing sleep has elapsed since the sweep's previous order
C8_PacedSubmissions ==
  [][\A r \in Runs : FirstSubmission(r) => runs[r].paced]_vars

\* C9 as stated: every pending signal is eventually executed while the sweep
\* job is scheduled (the fault budget makes every call succeed in the end)
C9_EveryPendingEventuallyExecuted ==
  \A id \in 1..MaxSignals :
    (Pending(id) /\ signalProcessingJob # "null") ~> Executed(id)

\* C10: when no call fails, no signal has its entry order accepted from two
\* runs of processAllPendingSignals
C10_NoDuplicateAcrossRuns ==
  faults = 0 =>
    \A id \in DOMAIN tradeSignals :
      Cardinality({o.run : o \in EntryOrders(id)}) <= 1

\* the strategy service of task k has its signal stored in this step
StrategyStores(k) == tasks[k].pc = "createSignal" /\ tasks'[k].created

TaskDecides(k) ==
  /\ tasks[k].pc = "getCandles"
  /\ tasks'[k].pc # "getCandles"
  /\ tasks'[k].analysis # NoAnalysis

\* C12: an analysis whose confidenceScore is below the threshold of the
\* strategy service yields no signal: the task returns without reaching
\* createSignal, no TradeSignal is stored and no order is submitted; and a
\* TradeSignal is stored only for a confidenceScore at or above the threshold
C12_ConfidenceGate ==
  [][\A k \in TaskIds :
       /\ (TaskDecides(k)
             /\ tasks'[k].analysis.confidenceScore < SIGNAL_MIN_CONFIDENCE)
            => /\ tasks'[k].pc = "returned"
               /\ ~tasks'[k].created
               /\ tradeSignals' = tradeSignals
               /\ exchangeOrders' = exchangeOrders
       /\ StrategyStores(k)
            => /\ tasks[k].analysis.confidenceScore >= SIGNAL_MIN_CONFIDENCE
               /\ tasks[k].analysis.confidenceScore >= TRADING_MIN_CONFIDENCE]_vars

C12_Witness ==
  /\ enableAutoTrading
  /\ \E k \in TaskIds :
       /\ tasks[k].pc = "returned"
       /\ tasks[k].stages = <<"analyze", "alert", "decide">>
       /\ tasks[k].analysis.confidenceScore < SIGNAL_MIN_CONFIDENCE
       /\ ~tasks[k].created
  /\ \E k \in TaskIds : tasks[k].created

\* C13: a tick that analysed a pair with at least 50 candles ran analyze,
\* alert deduplication and, with auto trading enabled, the strategy decision,
\* in that order; with auto trading disabled it ran no decision
C13_TickRunsDecision ==
  \A t \in TickIds :
    Len(ticks[t].stages) >= 2 =>
      ticks[t].stages = IF ticks[t].autoTrading
                          THEN <<"analyze", "alert", "decide">>
                          ELSE <<"analyze", "alert">>

AllPairs == [i \in 1..Len(MonitorPairs) |-> i]

\* C14: an error raised while a tick processes a pair is caught: the step
\* leaves the timer and the running flag as they were and the tick goes on
\* with the next pair, so a tick that returns has attempted every pair once,
\* in order
C14_PairErrorIsolated ==
  /\ [](\A t \in TickIds : ticks[t].pc = "returned" => ticks[t].attempted = AllPairs)
  /\ [][\A t \in TickIds :
          (ticks[t].pc = "getCandles" /\ ticks[t].idx \in ticks'[t].caught)
            => /\ timer' = timer
               /\ isRunning' = isRunning
               /\ ticks'[t].idx = ticks[t].idx + 1
               /\ ticks'[t].pc = IF ticks[t].idx < Len(MonitorPairs)
                                   THEN "getCandles" ELSE "returned"]_vars

C14_Witness ==
  \E t \in TickIds :
    /\ ticks[t].pc = "returned"
    /\ ticks[t].caught = {1}
    /\ ticks[t].stages = <<"analyze", "alert">>
    /\ ticks[t].attempted = AllPairs
    /\ timer = "set"

\* C15: at most one tick of the monitor loop is in flight, so no pair is being
\* processed by two ticks at the same time
C15_NoOverlappingTicks ==
  \A t, u \in TicksInFlight : t = u

\* C16: a start of a loop that is running replaces no timer and no job and
\* adds none (at most one job is live, the monitor has a timer exactly while
\* it runs), and stop leaves the timer handle cleared
C16_StartWhileRunningIsNoOp ==
  /\ ~jobReplaced
  /\ activeJobs <= 1
  /\ isRunning <=> timer = "set"

\* a tick of the monitor loop begins in this step
TickBegins(t) == ticks[t].pc = "idle" /\ ticks'[t].pc # "idle"
\* a sweep of the cron job begins in this step
SweepBegins(r) ==
  runs[r].pc = "idle" /\ runs'[r].pc # "idle" /\ runs'[r].origin = "cron"

AlertCalled == lastCall' # lastCall
\* the cached results for the (symbol, timeframe) pair of an analysis
CachedFor(cache, analysis) ==
  {k \in DOMAIN cache : /\ cache[k].symbol = analysis.symbol
                        /\ cache[k].timeframe = analysis.timeframe}

\* C18: a call for a (symbol, timeframe) pair with no cached result stores the
\* result, returns no alert and hands none to sendAlert, whatever the result
\* carries
C18_ColdStartSilent ==
  [][(AlertCalled /\ CachedFor(previousAnalysis, lastCall'.analysis) = {})
       => /\ lastCall'.alerts = <<>>
          /\ lastCall'.sent = <<>>
          /\ \E k \in CachedFor(previousAnalysis', lastCall'.analysis) :
               previousAnalysis'[k] = lastCall'.analysis]_vars

C18_Witness ==
  /\ Cardinality(DOMAIN previousAnalysis) = 2
  /\ lastCall.previous = NoAnalysis
  /\ lastCall.analysis.timeframe = TF_4H
  /\ \E i \in DOMAIN lastCall.analysis.signals :
       lastCall.analysis.signals[i].strength >= alertThreshold
  /\ lastCall.analysis.price = 103
  /\ lastCall.alerts = <<>>
  /\ lastCall.sent = <<>>
  /\ previousAnalysis[lastCall.key] = lastCall.analysis

\* the last call found a cached result for its key
LaterCall == lastCall # NoCall /\ lastCall.previous # NoAnalysis
IsSentimentAlert(alert) == alert.signalType = "SENTIMENT_CHANGE"
IsPriceAlert(alert) == alert.signalType = "PRICE_MOVEMENT"
IsSignalAlert(alert) == ~IsSentimentAlert(alert) /\ ~IsPriceAlert(alert)
\* the positions of the returned list that hold an alert of each kind
SentimentAlertIdx == {i \in DOMAIN lastCall.alerts : IsSentimentAlert(lastCall.alerts[i])}
PriceAlertIdx == {i \in DOMAIN lastCall.alerts : IsPriceAlert(lastCall.alerts[i])}
SignalAlertIdx == {i \in DOMAIN lastCall.alerts : IsSignalAlert(lastCall.alerts[i])}
\* the current signals at or above the threshold whose pair the cached result lacks
ExpectedSignalAlerts ==
  {lastCall.analysis.signals[i] : i \in
     {j \in DOMAIN lastCall.analysis.signals :
        /\ lastCall.analysis.signals[j].strength >= alertThreshold
        /\ ~hasPair(lastCall.previous.signals,
                    signalPair(lastCall.analysis.signals[j]))}}
\* the whole percents of the price change against the cached price
PercentMoved ==
  (100 * Abs(lastCall.analysis.price - lastCall.previous.price))
     \div lastCall.previous.price

\* C19: a call that finds a cached result returns exactly the current signals
\* at or above the threshold whose (indicator, signalType) pair the cached
\* result lacks, each once, plus one sentiment change alert of strength 8 iff
\* the sentiment differs from the cached one, plus one price movement alert of
\* strength 7 iff the price moved by 3 percent or more; the same alerts are
\* handed to sendAlert
C19_LaterCallAlerts ==
  LaterCall =>
    /\ {lastCall.alerts[i] : i \in SignalAlertIdx} = ExpectedSignalAlerts
    /\ Cardinality(SignalAlertIdx) = Cardinality(ExpectedSignalAlerts)
    /\ Cardinality(SentimentAlertIdx) =
         IF lastCall.analysis.overallSentiment # lastCall.previous.overallSentiment
           THEN 1 ELSE 0
    /\ \A i \in SentimentAlertIdx : lastCall.alerts[i].strength = 8
    /\ Cardinality(PriceAlertIdx) = IF PercentMoved >= 3 THEN 1 ELSE 0
    /\ \A i \in PriceAlertIdx : lastCall.alerts[i].strength = 7
    /\ lastCall.sent = lastCall.alerts

C19_Witness ==
  /\ LaterCall
  /\ alertThreshold = 7
  /\ hasPair(lastCall.analysis.signals, signalPair(MACD_BULLISH_CROSS))
  /\ Cardinality(SignalAlertIdx) = 1
  /\ Cardinality(SentimentAlertIdx) = 1
  /\ Cardinality(PriceAlertIdx) = 1
  /\ lastCall.previous.price = 100
  /\ lastCall.analysis.price = 103

\* C20: a call whose result equals the cached one returns no alert; and over a
\* run of consecutive results of a key that all contain an (indicator,
\* signalType) pair, that pair is alerted at most once
C20_DeduplicationIdempotent ==
  /\ (LaterCall /\ lastCall.analysis = lastCall.previous)
       => (lastCall.alerts = <<>> /\ lastCall.sent = <<>>)
  /\ \A k \in DOMAIN lastCall.runAlerts :
       \A pair \in SignalPairs : lastCall.runAlerts[k][pair] <= 1

C20_Witness ==
  /\ LaterCall
  /\ lastCall.analysis = lastCall.previous
  /\ lastCall.alerts = <<>>
  /\ \E i \in DOMAIN lastCall.analysis.signals :
       /\ lastCall.analysis.signals[i].strength >= alertThreshold
       /\ lastCall.runAlerts[<<lastCall.analysis.symbol, lastCall.analysis.timeframe>>]
                            [signalPair(lastCall.analysis.signals[i])] = 1

\* C21: after a call the cache holds the result just processed under the
\* (symbol, timeframe) pair of the call, under one key only, whether or not
\* alerts were returned; the entries of every other pair are as before the
\* call and no other entry appears
C21_CacheHoldsLastResult ==
  /\ [](\A k1, k2 \in DOMAIN previousAnalysis :
          (/\ previousAnalysis[k1].symbol = previousAnalysis[k2].symbol
           /\ previousAnalysis[k1].timeframe = previousAnalysis[k2].timeframe)
            => k1 = k2)
  /\ [][AlertCalled =>
          /\ Cardinality(CachedFor(previousAnalysis', lastCall'.analysis)) = 1
          /\ \A k \in CachedFor(previousAnalysis', lastCall'.analysis) :
               previousAnalysis'[k] = lastCall'.analysis
          /\ \A k \in DOMAIN previousAnalysis \ CachedFor(previousAnalysis, lastCall'.analysis) :
               k \in DOMAIN previousAnalysis' /\ previousAnalysis'[k] = previousAnalysis[k]
          /\ DOMAIN previousAnalysis' =
               DOMAIN previousAnalysis \cup CachedFor(previousAnalysis', lastCall'.analysis)]_vars

C21_Witness ==
  /\ LaterCall
  /\ lastCall.alerts = <<>>
  /\ lastCall.analysis # lastCall.previous
  /\ previousAnalysis[lastCall.key] = lastCall.analysis
  /\ \E k \in DOMAIN previousAnalysis :
       k # lastCall.key /\ previousAnalysis[k].price # lastCall.analysis.price

\* the number of alerts a call that found a cached result has to return
ExpectedAlertCount ==
  Cardinality(ExpectedSignalAlerts)
    + (IF lastCall.analysis.overallSentiment # lastCall.previous.overallSentiment
         THEN 1 ELSE 0)
    + (IF PercentMoved >= 3 THEN 1 ELSE 0)

\* C22: when the posts of a call fail, the call has still returned every alert
\* it had to, has handed each of them to sendAlert and has replaced the cache
\* entry; and the tick that made the call has caught no error and goes on with
\* the next pair
C22_ChannelFailureContained ==
  /\ [](lastCall.failed > 0 =>
          /\ Len(lastCall.alerts) = ExpectedAlertCount
          /\ lastCall.sent = lastCall.alerts
          /\ \E k \in CachedFor(previousAnalysis, lastCall.analysis) :
               previousAnalysis[k] = lastCall.analysis)
  /\ [][(AlertCalled /\ lastCall'.failed > 0) =>
          \A t \in TickIds :
            ticks'[t] # ticks[t] =>
              /\ ticks'[t].stages = <<"analyze", "alert">>
              /\ ticks'[t].caught = ticks[t].caught
              /\ ticks'[t].idx = ticks[t].idx + 1
              /\ ticks'[t].pc = IF ticks[t].idx < Len(MonitorPairs)
                                  THEN "getCandles" ELSE "returned"]_vars

C22_Witness ==
  /\ lastCall.failed >= 2
  /\ lastCall.analysis.timeframe = TF_1H
  /\ \E t \in TickIds :
       /\ ticks[t].pc = "getCandles"
       /\ ticks[t].idx = 2
       /\ ticks[t].stages = <<"analyze", "alert">>
       /\ ticks[t].caught = {}

\* C23: for every accepted policy and every confidence score the notional
\* lies between the default position size and a tenth of the account, and the
\* leverage is a whole number from 1 to the maximum leverage
C23_SizingWithinBounds ==
  (calc.op = "sizer" /\ calc.done) =>
    /\ calc.out.notional >= DEFAULT_TRADE_SIZE_USD * MoneyScale
    /\ calc.out.notional * 10 <= calc.in.accountSize * MoneyScale
    /\ calc.out.leverage \in 1..MAX_LEVERAGE

\* the quantity the entry order would have when sized from the notional given:
\* floor((notional / price) / qtyStep) * qtyStep, raised to the minimum
qtyFromNotional(symbol, price, notional) ==
  LET filter == lotSizeFilter(symbol)
      quantity == (((notional * QtyScale) \div price) \div filter.qtyStep)
                    * filter.qtyStep
  IN Max(filter.minOrderQty, quantity)

\* C24: the entry order of a signal is sized from that signal's own notional,
\* qty = floor((notional / price) / qtyStep) * qtyStep raised to the exchange
\* minimum, for every category of symbol
C24_QtyFromSignalNotional ==
  (calc.op = "qty" /\ calc.done) =>
    calc.out.qty =
      qtyFromNotional(calc.in.symbol, calc.in.price, calc.in.positionSizeUsd)

\* C25: for every positive entry price and positive take-profit and stop-loss
\* percentages below 100, a Buy order carries takeProfit > entry > stopLoss, a
\* Sell order carries takeProfit < entry < stopLoss, and the submitted entry
\* order carries exactly the two prices computed
C25_BracketDirectionAware ==
  (calc.op = "order" /\ calc.done) =>
    LET entry == calc.in.currentPrice * PriceScale
        order == calc.out.order
    IN /\ order.takeProfit = {calc.out.takeProfitPrice}
       /\ order.stopLoss = {calc.out.stopLossPrice}
       /\ \A tp \in order.takeProfit : \A sl \in order.stopLoss :
            IF order.side = "Buy"
              THEN tp > entry /\ entry > sl
              ELSE tp < entry /\ entry < sl

C25_Witness ==
  /\ calc.op = "order" /\ calc.done
  /\ calc.out.order.side = "Sell"
  /\ calc.in.takeProfitPercentage = TAKE_PROFIT_PERCENTAGE
  /\ calc.in.stopLossPercentage = STOP_LOSS_PERCENTAGE
  /\ calc.out.order.stopLoss = {calc.in.currentPrice * 1015}

AnalysisDone == calc.op = "analyze" /\ calc.done

\* C26: for every signal list analyzeMarket can produce, the confidence score
\* is an integer in [0,100] and is 0 exactly when the signal list is empty
C26_ConfidenceScoreRange ==
  AnalysisDone =>
    /\ calc.out.confidenceScore \in 0..100
    /\ (calc.out.confidenceScore = 0) <=> (calc.out.signals = << >>)

C26_Witness ==
  /\ AnalysisDone
  /\ Len(calc.out.signals) >= 3
  /\ calc.out.confidenceScore \in 1..99

\* the pair has a latest bar transition: enough candles for its slow EMA
HasTransition(index) ==
  calc.in.candles >= Max(EmaPeriods[index].fast, EmaPeriods[index].slow) + 5

EmaSignalsOf(index) ==
  {i \in DOMAIN calc.out.signals :
     calc.out.signals[i].indicator = emaIndicator(index)}

\* C27: for each period pair, a crossover on the latest bar transition
\* (previous fast <= previous slow, current fast > current slow) emits a BUY
\* signal, a crossunder (the mirror condition) emits a SELL signal and neither
\* emits nothing, with strength 5, 7 and 9 by pair; isCrossOver and
\* isCrossUnder are never both true
C27_EmaCrossSignals ==
  AnalysisDone =>
    \A index \in 1..3 :
      HasTransition(index) =>
        LET last == calc.in.ema[index]
            over == last.prevFast <= last.prevSlow /\ last.fast > last.slow
            under == last.prevFast >= last.prevSlow /\ last.fast < last.slow
            emitted == EmaSignalsOf(index)
        IN /\ ~(calc.out.emaCross[index].isCrossOver
                  /\ calc.out.emaCross[index].isCrossUnder)
           /\ over => \E i \in emitted :
                        /\ calc.out.signals[i].action = "BUY"
                        /\ calc.out.signals[i].strength = emaStrength(index)
           /\ under => \E i \in emitted :
                         /\ calc.out.signals[i].action = "SELL"
                         /\ calc.out.signals[i].strength = emaStrength(index)
           /\ (~over /\ ~under) => emitted = {}

SignalBuilt == calc.op = "strategy" /\ calc.done /\ calc.out.created

\* n is x rounded to the nearest integer, x = amount * factor
IsRounded(n, amount, factor) ==
  /\ 2 * factor.d * n <= 2 * amount * factor.n + factor.d
  /\ 2 * amount * factor.n + factor.d < 2 * factor.d * (n + 1)

C29_StrategyFirstMatch ==
  (SignalBuilt /\ Present(calc.in.analysis.rsi) /\ Present(calc.in.analysis.macd)) =>
    LET rsi == ValueOf(calc.in.analysis.rsi)
        histogram == ValueOf(calc.in.analysis.macd)
    IN calc.out.strategy =
         IF rsi <= 30 THEN "RSI_OVERSOLD"
         ELSE IF rsi >= 70 THEN "RSI_OVERBOUGHT"
         ELSE IF histogram * 10 > 5 * HistogramScale THEN "MACD_BULLISH"
         ELSE IF histogram * 10 < -(5 * HistogramScale) THEN "MACD_BEARISH"
         ELSE "TREND_FOLLOWING"

\* C30: after any sequence of start, stop and setPollingInterval the monitor
\* holds at most one active interval timer and its timer handle is non-null
\* exactly when isRunning; after any sequence of startSignalProcessing and
\* stopSignalProcessing at most one sweep job is scheduled
C30_AtMostOneTimerAndJob ==
  /\ activeTimers <= 1
  /\ (timer # "null") <=> isRunning
  /\ activeTimers = (IF timer # "null" THEN 1 ELSE 0)
  /\ activeJobs <= 1
  /\ activeJobs = (IF signalProcessingJob # "null" THEN 1 ELSE 0)

C30_Witness ==
  /\ isRunning
  /\ pollingInterval # POLLING_INTERVAL
  /\ activeTimers = 1
  /\ jobReplaced
  /\ activeJobs = 1

====
